---- MODULE Spec2Model ----
(***************************************************************************)
(* Model of the Taichi multiresolution hash-grid encoder of                *)
(* src/hashgrid_test_taichi.py: the level planner run by                   *)
(* HashEncoderTaichi.__init__, the spatial hash (fast_hash, under_hash,    *)
(* grid_pos2hash_index), hash_encode_kernel and its reverse-mode gradient, *)
(* and the forward/backward pair of _module_function.                      *)
(*                                                                         *)
(* Number representation.  The program computes in f32/f64; the model      *)
(* computes exactly, in rationals with an explicit denominator:            *)
(*   - per_level_scale b is a rational <<bn, bd>>, exp(l * log(b)) is b^l; *)
(*   - a position component is k / PosDenom with k in 0..PosDenom;         *)
(*   - at a level whose scale is sn/sd, every fractional part and weight   *)
(*     factor is a numerator over Q == 2 * PosDenom * sd, a trilinear      *)
(*     weight a numerator over Q^3, and an embedding or gradient entry of  *)
(*     that level a numerator over Q^3.                                    *)
(* Unsigned 32-bit values are pairs <<hi, lo>> of 16-bit halves, so that   *)
(* the wraparound of uint32 products is computed and not assumed.          *)
(* Arrays too long to enumerate are held by the entries the model's        *)
(* positions can reach: the flat parameter buffer is a formula of its      *)
(* index, its gradient a function on the reachable indices.                *)
(***************************************************************************)
EXTENDS Integers, Sequences, FiniteSets

\* ---------------------------------------------------------------- bounds

\* Number of resolution levels (the source fixes 16 in range(16) and ndrange(B, 16)).
NumLevels == 4
\* Rows of the pre-allocated position/output buffers (batch_size * 1024 in the source).
MaxBatch == 2
\* Position components are k / PosDenom, k in 0..PosDenom.
PosDenom == 2

\* ------------------------------------------------------- program constants

base_res == 16
max_params == 524288
KernelBase == 16

Levels == 0..(NumLevels - 1)
Rows == 1..MaxBatch
Features == 0..1
Corners == 0..7
Axes == 1..3

\* Constructor arguments b (per_level_scale), as exact rationals <<bn, bd>>.
PerLevelScales == {<<5, 4>>, <<3, 2>>, <<2, 1>>}

\* ------------------------------------------------------ exact arithmetic

RECURSIVE Pow(_, _)
Pow(x, n) == IF n = 0 THEN 1 ELSE x * Pow(x, n - 1)

RECURSIVE GCD(_, _)
GCD(x, y) == IF y = 0 THEN x ELSE GCD(y, x % y)

\* The rational num / den in lowest terms.
Reduced(num, den) == <<num \div GCD(num, den), den \div GCD(num, den)>>

\* base * exp(level * log(b)) - 1.0 as a reduced rational <<num, den>>.
ScaleOf(base, b, level) ==
    Reduced(base * Pow(b[1], level) - Pow(b[2], level), Pow(b[2], level))

\* ceil of a non-negative rational.
Ceil(q) == (q[1] + q[2] - 1) \div q[2]

\* ------------------------------------------------------ uint32 arithmetic

Half == 65536

U32(n) == <<n \div Half, n % Half>>

\* t * 256 + u as a pair of halves, for t < 2^24 and u < 2^25.
Join16(t, u) == <<(t \div 256) + (u \div Half), u % Half>>

\* x * y given t = (x \div 256) * y.
Mul16Low(x, y, t) == Join16(t, (t % 256) * 256 + (x % 256) * y)

\* Full 32-bit product of two 16-bit values.
Mul16(x, y) == Mul16Low(x, y, (x \div 256) * y)

\* The low product p plus the cross terms shifted by 16 bits, modulo 2^32.
Mul32Sum(p, cross) == <<(p[1] + cross) % Half, p[2]>>

Mul32(a, b) ==
    Mul32Sum(Mul16(a[2], b[2]), (Mul16(a[1], b[2])[2] + Mul16(a[2], b[1])[2]) % Half)

Add32(a, b) ==
    <<(a[1] + b[1] + ((a[2] + b[2]) \div Half)) % Half, (a[2] + b[2]) % Half>>

RECURSIVE XorBits(_, _, _)
XorBits(x, y, n) ==
    IF n = 0 THEN 0
    ELSE ((x + y) % 2) + 2 * XorBits(x \div 2, y \div 2, n - 1)

Xor32(a, b) == <<XorBits(a[1], b[1], 16), XorBits(a[2], b[2], 16)>>

\* a % m for a uint32 a and a modulus 0 < m < 2^22.
Mod32(a, m) == ((((a[1] % m) * 256) % m) * 256 + a[2]) % m

\* --------------------------------------------------------- spatial hash

\* primes = uvec3(1, 2654435761, 805459861)
primes == << <<0, 1>>, <<40503, 31153>>, <<12290, 22421>> >>

fast_hash(pos_grid_local) ==
    Xor32(Xor32(Mul32(pos_grid_local[1], primes[1]),
                Mul32(pos_grid_local[2], primes[2])),
          Mul32(pos_grid_local[3], primes[3]))

\* A plausible slip: the stride is never multiplied by the resolution.
under_hash_no_stride(pos_grid_local, resolution) ==
    Add32(Add32(pos_grid_local[1], pos_grid_local[2]), pos_grid_local[3])

\* The loop of under_hash from axis i on: result += pos_grid_local[i] * stride,
\* stride *= resolution.
RECURSIVE under_hash_loop(_, _, _, _, _)
under_hash_loop(pos_grid_local, resolution, i, result, stride) ==
    IF i > 3 THEN result
    ELSE under_hash_loop(pos_grid_local, resolution, i + 1,
                         Add32(result, Mul32(pos_grid_local[i], stride)),
                         Mul32(stride, resolution))

under_hash(pos_grid_local, resolution) ==
    under_hash_loop(pos_grid_local, resolution, 1, <<0, 0>>, <<0, 1>>)

\* A uint32 clipped into the range of plain integers.
Clipped(hash_result) == (hash_result[1] % 16384) * Half + hash_result[2]

\* A plausible slip: the final reduction modulo the table size is missing.
grid_pos2hash_index_no_mod(indicator, pos_grid_local, resolution, map_size) ==
    Clipped(IF indicator = 1 THEN under_hash(pos_grid_local, resolution)
                             ELSE fast_hash(pos_grid_local))

grid_pos2hash_index(indicator, pos_grid_local, resolution, map_size) ==
    Mod32(IF indicator = 1 THEN under_hash(pos_grid_local, resolution)
                           ELSE fast_hash(pos_grid_local),
          map_size)

\* ------------------------------------------------------- level planner

\* resolution = int(ceil(base_res * exp(i * log(per_level_scale)) - 1.0)) + 1
ctor_resolution(b, i) == Ceil(ScaleOf(base_res, b, i)) + 1

Cube(r) == r * r * r

Min(x, y) == IF x < y THEN x ELSE y

\* resolution ** 3 rounded up to a multiple of 8, at most max_params.
params_in_level(b, i) ==
    Min(max_params,
        IF Cube(ctor_resolution(b, i)) % 8 = 0
        THEN Cube(ctor_resolution(b, i))
        ELSE ((Cube(ctor_resolution(b, i)) + 8 - 1) \div 8) * 8)

\* A plausible slip: the comparison of the indicator is strict.
CtorStepBadIndicator(b, i, st) ==
    [offsets |-> [st.offsets EXCEPT ![i] = st.offset_],
     sizes |-> [st.sizes EXCEPT ![i] = params_in_level(b, i)],
     indicator |-> [st.indicator EXCEPT
                       ![i] = IF Cube(ctor_resolution(b, i)) < params_in_level(b, i)
                              THEN 1 ELSE 0],
     offset_ |-> st.offset_ + params_in_level(b, i)]

\* A plausible slip: the offset advances by the unclamped number of cells.
CtorStepBadOffset(b, i, st) ==
    [offsets |-> [st.offsets EXCEPT ![i] = st.offset_],
     sizes |-> [st.sizes EXCEPT ![i] = params_in_level(b, i)],
     indicator |-> [st.indicator EXCEPT
                       ![i] = IF Cube(ctor_resolution(b, i)) <= params_in_level(b, i)
                              THEN 1 ELSE 0],
     offset_ |-> st.offset_ + Cube(ctor_resolution(b, i))]

\* One iteration of the constructor's loop over the levels.
CtorStep(b, i, st) ==
    [offsets |-> [st.offsets EXCEPT ![i] = st.offset_],
     sizes |-> [st.sizes EXCEPT ![i] = params_in_level(b, i)],
     indicator |-> [st.indicator EXCEPT
                       ![i] = IF Cube(ctor_resolution(b, i)) <= params_in_level(b, i)
                              THEN 1 ELSE 0],
     offset_ |-> st.offset_ + params_in_level(b, i)]

RECURSIVE CtorLoop(_, _, _)
CtorLoop(b, i, st) ==
    IF i = NumLevels THEN st ELSE CtorLoop(b, i + 1, CtorStep(b, i, st))

\* The level descriptors and the buffer length the constructor leaves behind.
Constructed_from(st) ==
    [offsets |-> st.offsets, sizes |-> st.sizes, indicator |-> st.indicator,
     total_hash_size |-> st.offset_ * 2]

Construct(b) ==
    Constructed_from(CtorLoop(b, 0, [offsets |-> [l \in Levels |-> 0],
                                     sizes |-> [l \in Levels |-> 0],
                                     indicator |-> [l \in Levels |-> 0],
                                     offset_ |-> 0]))

\* The arguments both kernels receive besides the buffers: the constructed
\* level descriptors and per_level_scale.
KernelArgs(b) ==
    [hash_map_indicator |-> Construct(b).indicator,
     hash_map_sizes_field |-> Construct(b).sizes,
     offsets |-> Construct(b).offsets, per_level_scale |-> b]

\* ---------------------------------------------------------------- inputs

\* Normalized positions a caller passes, as numerators over PosDenom.
Positions == {<<0, 0, 0>>, <<1, 0, PosDenom>>, <<PosDenom, PosDenom, PosDenom>>}

PositionBatches == UNION {[1..n -> Positions] : n \in Rows}

\* Parameter vectors a caller passes to forward, and output gradients a caller
\* passes to backward, by number.
ParamVecs == {1, 2}
DoutChoices == {1, 2}

\* Entry j of parameter vector c; vector 0 is the zero-filled field.
TableAt(c, j) == IF c = 0 THEN 0 ELSE ((j * (c + 1) + c) % 7) - 3

\* Output gradient number k for a batch of n samples.
Dout(k, n) == [i \in 1..n |-> [c \in 0..(2 * NumLevels - 1) |-> ((k * i + c) % 3) - 1]]

\* -------------------------------------------------------- encode kernel

\* scale = 16 * exp(level * log(per_level_scale)) - 1.0
KernelScale(b, level) == ScaleOf(KernelBase, b, level)

\* resolution = cast(ceil(scale), uint32) + 1
KernelResolution(b, level) == Ceil(KernelScale(b, level)) + 1

\* Common denominator of the scaled position at a level.
Q(b, level) == 2 * PosDenom * KernelScale(b, level)[2]

\* A plausible slip: the half-cell offset is left out.
PosNumNoOffset(b, level, xyz, d) == 2 * xyz[d] * KernelScale(b, level)[1]

\* pos = xyz * scale + 0.5, as a numerator over Q(b, level).
PosNum(b, level, xyz, d) ==
    2 * xyz[d] * KernelScale(b, level)[1] + PosDenom * KernelScale(b, level)[2]

\* pos_grid_uint = cast(floor(pos), uint32)
pos_grid_uint(b, level, xyz) ==
    <<PosNum(b, level, xyz, 1) \div Q(b, level),
      PosNum(b, level, xyz, 2) \div Q(b, level),
      PosNum(b, level, xyz, 3) \div Q(b, level)>>

\* pos -= pos_grid_uint, as numerators over Q(b, level).
pos_frac(b, level, xyz) ==
    <<PosNum(b, level, xyz, 1) % Q(b, level),
      PosNum(b, level, xyz, 2) % Q(b, level),
      PosNum(b, level, xyz, 3) % Q(b, level)>>

\* (idx & (1 << d)) != 0, for the axis d + 1.
Bit(idx, d) == (idx \div Pow(2, d - 1)) % 2

\* pos_grid_local of corner idx.
pos_grid_local(b, level, xyz, idx) ==
    <<pos_grid_uint(b, level, xyz)[1] + Bit(idx, 1),
      pos_grid_uint(b, level, xyz)[2] + Bit(idx, 2),
      pos_grid_uint(b, level, xyz)[3] + Bit(idx, 3)>>

\* The factor axis d contributes to w: 1 - pos[d] or pos[d], over Q(b, level).
WeightFactor(b, level, xyz, idx, d) ==
    IF Bit(idx, d) = 0
    THEN Q(b, level) - pos_frac(b, level, xyz)[d]
    ELSE pos_frac(b, level, xyz)[d]

\* w of corner idx, as a numerator over Q(b, level)^3.
CornerWeight(b, level, xyz, idx) ==
    WeightFactor(b, level, xyz, idx, 1) * WeightFactor(b, level, xyz, idx, 2)
    * WeightFactor(b, level, xyz, idx, 3)

AsU32(c) == <<U32(c[1]), U32(c[2]), U32(c[3])>>

\* index_table = offset + index * 2 for a corner given as three uint32.
index_table(args, level, corner) ==
    args.offsets[level] * 2
    + grid_pos2hash_index(args.hash_map_indicator[level], corner,
                          U32(KernelResolution(args.per_level_scale, level)),
                          args.hash_map_sizes_field[level]) * 2

\* What one (sample, level) thread computes for its 8 corners: the weight w and
\* the flat index index_table of each.
ThreadCorners(args, level, xyz) ==
    [idx \in Corners |->
        [w |-> CornerWeight(args.per_level_scale, level, xyz, idx),
         j |-> index_table(args, level,
                           AsU32(pos_grid_local(args.per_level_scale, level, xyz, idx)))]]

\* ThreadCorners tabulated once over the constructor arguments and positions
\* of the model; thread_corners reads the table.
MemoArgs == {KernelArgs(b) : b \in PerLevelScales}

CornerMemo ==
    [args \in MemoArgs |-> [level \in Levels |-> [xyz \in Positions |->
        ThreadCorners(args, level, xyz)]]]

thread_corners(args, level, xyz) == CornerMemo[args][level][xyz]

\* local_feature_f += w * table[index_table + f] for the corners idx..7.
RECURSIVE local_feature_loop(_, _, _, _)
local_feature_loop(c, table, f, idx) ==
    IF idx = 8 THEN 0
    ELSE c[idx].w * TableAt(table, c[idx].j + f)
         + local_feature_loop(c, table, f, idx + 1)

\* local_feature_0 or local_feature_1 once the 8 corners were added.
local_feature(args, level, xyz, table, f) ==
    local_feature_loop(thread_corners(args, level, xyz), table, f, 0)

\* xyzs_embedding as written by the kernel for the rows 1..B.
hash_encode_kernel(xyzs, table, args, B) ==
    [i \in 1..B |-> [c \in 0..(2 * NumLevels - 1) |->
        local_feature(args, c \div 2, xyzs[i], table, c % 2)]]

\* ------------------------------------------------------ gradient scatter

\* The flat indices of the parameter gradient the model's positions can reach;
\* every other entry of the gradient is never written and holds 0.
GradIndices(args) ==
    UNION {UNION {{c[idx].j, c[idx].j + 1} : idx \in Corners} :
           c \in {thread_corners(args, level, xyz) : level \in Levels, xyz \in Positions}}

GradIndexMemo == [args \in MemoArgs |-> GradIndices(args)]

\* The zero-filled gradient buffer.
ZeroGrad(args) == [j \in GradIndexMemo[args] |-> 0]

\* A plausible slip: a plain store in place of the atomic addition.
PlainStore(g, j, v) == [g EXCEPT ![j] = v]

\* g[j] += v as one atomic step.
AtomicAdd(g, j, v) == [g EXCEPT ![j] = @ + v]

\* The two additions the reverse pass makes for corner idx of (sample i, level).
ScatterPair(g, c, d0, d1) ==
    AtomicAdd(AtomicAdd(g, c.j, c.w * d0), c.j + 1, c.w * d1)

ScatterCorner(g, xyzs, dout, args, i, level, idx) ==
    ScatterPair(g, thread_corners(args, level, xyzs[i])[idx],
                dout[i][level * 2], dout[i][level * 2 + 1])

\* Corners idx..0 of one (sample, level) thread, in the reverse pass's order.
RECURSIVE ScatterThread(_, _, _, _, _, _, _)
ScatterThread(g, xyzs, dout, args, i, level, idx) ==
    IF idx < 0 THEN g
    ELSE ScatterThread(ScatterCorner(g, xyzs, dout, args, i, level, idx),
                       xyzs, dout, args, i, level, idx - 1)

\* hash_encode_kernel.grad over the threads (1..B) x Levels, numbered t = 0..
\* (The scatter never resizes the buffer; the test on the domains makes TLC
\* evaluate one thread's additions before it turns to the next thread.)
RECURSIVE kernel_grad(_, _, _, _, _, _)
RECURSIVE kernel_grad_after(_, _, _, _, _, _, _)
kernel_grad(g, xyzs, dout, args, B, t) ==
    IF t = B * NumLevels THEN g
    ELSE kernel_grad_after(g, ScatterThread(g, xyzs, dout, args, (t \div NumLevels) + 1,
                                            t % NumLevels, 7),
                           xyzs, dout, args, B, t)

\* The threads after thread t, once thread t left g1.
kernel_grad_after(g, g1, xyzs, dout, args, B, t) ==
    IF DOMAIN g1 = DOMAIN g THEN kernel_grad(g1, xyzs, dout, args, B, t + 1) ELSE g1

\* A plausible slip: the accumulator is not cleared.
zero_grad_skipped(g) == g

\* self.parameter_fields.grad.fill(0.0)
zero_grad(g) == [j \in DOMAIN g |-> 0]

\* ---------------------------------------------------------------- state

VARIABLES
    per_level_scale,        \* self.per_level_scale
    offsets,                \* self.offsets: first slot of each level's segment
    hash_map_sizes_field,   \* self.hash_map_sizes_field: slots per level
    hash_map_indicator,     \* self.hash_map_indicator: 1 = dense, 0 = hashed
    total_hash_size,        \* self.total_hash_size: length of the flat buffer
    input_fields,           \* self.input_fields: staged positions, one per row
    parameter_fields,       \* self.parameter_fields: staged parameter vector
    output_fields,          \* self.output_fields: kernel output, one row per sample
    output_embedding,       \* self.output_embedding: the registered torch buffer
    param_grad,             \* self.parameter_fields.grad
    hash_grad,              \* self.hash_grad: the registered torch buffer
    returned,               \* rows of output_embedding the last returned tensor views
    fwd_sizes,              \* batch sizes of the forward calls made so far
    bwd_rows,               \* rows read by the backward call made since the last forward
    bwd_dout,               \* output gradient of that backward call
    bwd_calls,              \* backward calls made so far, counted up to 2
    probe_level,            \* level of the corner looked up last
    probe_corner,           \* that corner: three uint32 coordinates
    probe_slot,             \* grid_pos2hash_index of that corner
    probe_index,            \* index_table of that corner
    sc_level,               \* level whose scatter threads are running
    sc_pc                   \* per sample: next corner of its thread, -1 when done

vars == <<per_level_scale, offsets, hash_map_sizes_field, hash_map_indicator,
          total_hash_size, input_fields, parameter_fields, output_fields,
          output_embedding, param_grad, hash_grad, returned, fwd_sizes,
          bwd_rows, bwd_dout, bwd_calls, probe_level, probe_corner, probe_slot,
          probe_index, sc_level, sc_pc>>

descriptors == <<per_level_scale, offsets, hash_map_sizes_field, hash_map_indicator,
                 total_hash_size>>

buffers == <<input_fields, parameter_fields, output_fields, output_embedding,
             param_grad, hash_grad>>

calls == <<returned, fwd_sizes, bwd_rows, bwd_dout, bwd_calls>>

probe == <<probe_level, probe_corner, probe_slot, probe_index>>

scatter == <<sc_level, sc_pc>>

\* The kernel arguments as the instance holds them.
args_now ==
    [hash_map_indicator |-> hash_map_indicator,
     hash_map_sizes_field |-> hash_map_sizes_field,
     offsets |-> offsets, per_level_scale |-> per_level_scale]

\* ------------------------------------------------------------ operations

ZeroRow == [c \in 0..(2 * NumLevels - 1) |-> 0]

\* HashEncoderTaichi.__init__(b)
Constructed ==
    /\ per_level_scale \in PerLevelScales
    /\ offsets = Construct(per_level_scale).offsets
    /\ hash_map_sizes_field = Construct(per_level_scale).sizes
    /\ hash_map_indicator = Construct(per_level_scale).indicator
    /\ total_hash_size = Construct(per_level_scale).total_hash_size

NoCalls ==
    /\ input_fields = [i \in Rows |-> <<0, 0, 0>>]
    /\ parameter_fields = 0
    /\ output_fields = [i \in Rows |-> ZeroRow]
    /\ output_embedding = [i \in Rows |-> ZeroRow]
    /\ param_grad = ZeroGrad(args_now)
    /\ hash_grad = ZeroGrad(args_now)
    /\ returned = 0
    /\ fwd_sizes = {}
    /\ bwd_rows = {}
    /\ bwd_dout = <<>>
    /\ bwd_calls = 0

NoProbe ==
    /\ probe_level = 0
    /\ probe_corner = AsU32(<<0, 0, 0>>)
    /\ probe_slot = 0
    /\ probe_index = 0

NoScatter ==
    /\ sc_level = 0
    /\ sc_pc = [i \in Rows |-> -1]

Init == Constructed /\ NoCalls /\ NoProbe /\ NoScatter

\* A buffer after its first n rows were overwritten with those of src.
CopyRows(buffer, src, n) == [i \in Rows |-> IF i <= n THEN src[i] ELSE buffer[i]]

\* _module_function.forward(input_pos, params)
Forward(input_pos, params) ==
    /\ input_fields' = CopyRows(input_fields, input_pos, Len(input_pos))
    /\ parameter_fields' = params
    /\ output_fields' =
           CopyRows(output_fields,
                    hash_encode_kernel(input_fields', parameter_fields', args_now,
                                       Len(input_pos)),
                    Len(input_pos))
    /\ output_embedding' = CopyRows(output_embedding, output_fields', Len(input_pos))
    /\ returned' = Len(input_pos)
    /\ fwd_sizes' = fwd_sizes \cup {Len(input_pos)}
    /\ bwd_rows' = {}
    /\ bwd_dout' = <<>>
    /\ UNCHANGED <<descriptors, param_grad, hash_grad, bwd_calls, probe, scatter>>

\* _module_function.backward(doutput)
Backward(doutput) ==
    /\ Len(doutput) \in fwd_sizes
    /\ param_grad' = kernel_grad(zero_grad(param_grad), input_fields, doutput,
                                 args_now, Len(doutput), 0)
    /\ hash_grad' = param_grad'
    /\ bwd_rows' = 1..Len(doutput)
    /\ bwd_dout' = doutput
    /\ bwd_calls' = IF bwd_calls < 2 THEN bwd_calls + 1 ELSE bwd_calls
    /\ UNCHANGED <<descriptors, input_fields, parameter_fields, output_fields,
                   output_embedding, returned, fwd_sizes, probe, scatter>>

Next ==
    \/ \E input_pos \in PositionBatches, params \in ParamVecs :
           Forward(input_pos, params)
    \/ \E k \in DoutChoices, n \in Rows : Backward(Dout(k, n))

Spec == Init /\ [][Next]_vars

\* ------------------------------------------------- the planner's layout

\* Sum of the table sizes of the levels below i.
RECURSIVE SizesBelow(_)
SizesBelow(i) == IF i = 0 THEN 0 ELSE SizesBelow(i - 1) + hash_map_sizes_field[i - 1]

C4_Layout ==
    /\ offsets[0] = 0
    /\ \A i \in Levels : offsets[i] = SizesBelow(i)
    /\ \A i \in Levels : i + 1 \in Levels =>
           offsets[i + 1] = offsets[i] + hash_map_sizes_field[i]
    /\ total_hash_size = SizesBelow(NumLevels) * 2

\* C4: tableOffset[0] = 0, tableOffset[i] is the sum of the table sizes of the
\* levels below i (consecutive segments are adjacent and disjoint), the flat
\* buffer holds sum(tableSize) * 2 scalars, and no call changes these values.
C4_OffsetsArePrefixSums == [](C4_Layout) /\ [][UNCHANGED descriptors]_vars

C4_Witness ==
    /\ bwd_calls > 0
    /\ returned > 0
    /\ offsets[NumLevels - 1] > offsets[1]
    /\ offsets[1] > 0

\* The number of cells of a level's grid, from the resolution the constructor
\* derives.
Cells(level) == Cube(ctor_resolution(per_level_scale, level))

\* C6: a level is Dense exactly when resolution^3 <= M = 2^19, equivalently
\* when resolution^3 <= tableSize[level], where tableSize is the smaller of M
\* and resolution^3 rounded up to a multiple of 8; otherwise it is Hashed.
C6_DenseIffFits ==
    \A level \in Levels :
        /\ hash_map_indicator[level] \in {0, 1}
        /\ hash_map_sizes_field[level] = Min(max_params, ((Cells(level) + 7) \div 8) * 8)
        /\ (hash_map_indicator[level] = 1) <=> (Cells(level) <= max_params)
        /\ (hash_map_indicator[level] = 1) <=> (Cells(level) <= hash_map_sizes_field[level])

C6_Witness ==
    /\ \E level \in Levels : hash_map_indicator[level] = 1
    /\ \E level \in Levels : hash_map_indicator[level] = 0
    /\ returned > 0

\* ------------------------------------------------- the returned gradient

\* The additions the tuples (i, level, idx), i in rows, make: entry `at`
\* receives `v` from the tuple `by`.
AdditionPair(c, by, d0, d1) ==
    {[at |-> c.j, by |-> by, v |-> c.w * d0], [at |-> c.j + 1, by |-> by, v |-> c.w * d1]}

Additions(xyzs, dout, rows, levels) ==
    UNION {AdditionPair(thread_corners(args_now, level, xyzs[i])[idx], <<i, level, idx>>,
                        dout[i][level * 2], dout[i][level * 2 + 1]) :
           i \in rows, level \in levels, idx \in Corners}

\* The sum of the values v of a set of additions.
RECURSIVE SumV(_)
RECURSIVE SumVWith(_, _)
SumV(S) == IF S = {} THEN 0 ELSE SumVWith(S, CHOOSE y \in S : TRUE)

SumVWith(S, x) == x.v + SumV(S \ {x})

\* Every entry of g is the sum of the additions made to it: 0 where there is
\* none.
IsSumOf(g, adds) ==
    /\ \A j \in DOMAIN g \ {a.at : a \in adds} : g[j] = 0
    /\ \A j \in {a.at : a \in adds} :
           j \in DOMAIN g /\ g[j] = SumV({a \in adds : a.at = j})

\* C1: the gradient a backward call returns holds, at every entry, the sum of
\* weight * outputGradient over the tuples of that call which map to the
\* entry, and 0 where no tuple maps; nothing of an earlier call is left in it.
C1_GradientIsScatterSum ==
    bwd_rows # {} =>
        IsSumOf(hash_grad, Additions(input_fields, bwd_dout, bwd_rows, Levels))

C1_Witness ==
    /\ bwd_calls = 2
    /\ bwd_rows = Rows
    /\ \E j \in DOMAIN hash_grad : hash_grad[j] # 0
    /\ \E j \in DOMAIN hash_grad : hash_grad[j] = 0
    /\ input_fields[1] = input_fields[2]

\* ------------------------------------------------- staging and aliasing

\* C3 (as claimed): every position row a backward call reads was staged by
\* the forward call immediately before it.
C3_BackwardReadsLastForward == bwd_rows \subseteq 1..returned

\* C9 (as claimed): the embedding a forward call returned is not modified by
\* any later call.  The returned tensor is the first `returned` rows of
\* output_embedding.
C9_ReturnedEmbeddingStable ==
    [][\A i \in 1..returned : output_embedding'[i] = output_embedding[i]]_vars

\* ------------------------------------------------- corners and weights

\* C10 (as claimed): for staged positions in [0,1]^3 and every Dense level,
\* each coordinate of each of the 8 corners is below the level's resolution.
C10_CornersInsideGrid ==
    \A i \in 1..returned : \A level \in Levels :
        hash_map_indicator[level] = 1 =>
            \A idx \in Corners : \A d \in Axes :
                pos_grid_local(per_level_scale, level, input_fields[i], idx)[d]
                    < KernelResolution(per_level_scale, level)

\* Sum over the corners {0,1}^3 of the parameter stored at the corner's slot.
RECURSIVE UnitCornerSum(_, _, _)
UnitCornerSum(level, f, idx) ==
    IF idx = 8 THEN 0
    ELSE TableAt(parameter_fields,
                 index_table(args_now, level,
                             AsU32(<<Bit(idx, 1), Bit(idx, 2), Bit(idx, 3)>>)) + f)
         + UnitCornerSum(level, f, idx + 1)

\* C8 (as claimed): at position (0,0,0) one corner has weight 1.0 and the
\* embedding is the feature pair stored at that corner's slot.
C8_SingleCornerAtOrigin ==
    \A i \in 1..returned : input_fields[i] = <<0, 0, 0>> =>
        \A level \in Levels : \A f \in Features :
            /\ \E idx \in Corners :
                   CornerWeight(per_level_scale, level, input_fields[i], idx)
                       = Cube(Q(per_level_scale, level))
            /\ output_embedding[i][level * 2 + f]
                   = Cube(Q(per_level_scale, level))
                     * TableAt(parameter_fields,
                               index_table(args_now, level, AsU32(<<0, 0, 0>>)) + f)

\* C8 (amended): at position (0,0,0) the base corner is (0,0,0), the
\* fractional part is 1/2 on every axis, each of the 8 corners {0,1}^3 has
\* weight 1/8, and the embedding is the mean of the 8 corners' feature pairs.
C8_EqualCornersAtOrigin ==
    \A i \in 1..returned : input_fields[i] = <<0, 0, 0>> =>
        \A level \in Levels :
            /\ pos_grid_uint(per_level_scale, level, input_fields[i]) = <<0, 0, 0>>
            /\ \A idx \in Corners :
                   8 * CornerWeight(per_level_scale, level, input_fields[i], idx)
                       = Cube(Q(per_level_scale, level))
            /\ \A f \in Features :
                   8 * output_embedding[i][level * 2 + f]
                       = Cube(Q(per_level_scale, level)) * UnitCornerSum(level, f, 0)

C8_Witness ==
    /\ returned = MaxBatch
    /\ input_fields[returned] = <<0, 0, 0>>
    /\ parameter_fields # 0
    /\ \E c \in DOMAIN output_embedding[returned] : output_embedding[returned][c] # 0

\* ------------------------------------------------------ the hash, probed

\* The spatial hash and the kernel's index arithmetic applied to corners of
\* any uint32 coordinates: those of positions in the unit cube, and those a
\* position outside it leaves after the cast of a negative or huge float to
\* uint32, whose result the language does not define.
ProbeCoords(level) ==
    {U32(0), U32(1), U32(KernelResolution(per_level_scale, level) - 1),
     U32(KernelResolution(per_level_scale, level)), <<1, 0>>, <<65535, 65535>>}

Lookup(level, corner) ==
    /\ probe_level' = level
    /\ probe_corner' = corner
    /\ probe_slot' = grid_pos2hash_index(hash_map_indicator[level], corner,
                                         U32(KernelResolution(per_level_scale, level)),
                                         hash_map_sizes_field[level])
    /\ probe_index' = index_table(args_now, level, corner)
    /\ UNCHANGED <<descriptors, buffers, calls, scatter>>

\* The kernel looks up the origin corner of another level.
ProbeLevel(level) == Lookup(level, AsU32(<<0, 0, 0>>))

\* The kernel looks up the corner that differs in one coordinate.
ProbeAxis(d, coord) == Lookup(probe_level, [probe_corner EXCEPT ![d] = coord])

HashNext ==
    \/ \E level \in Levels : ProbeLevel(level)
    \/ \E d \in Axes : \E coord \in ProbeCoords(probe_level) : ProbeAxis(d, coord)

HashSpec == Init /\ [][HashNext]_vars

\* C5: in Dense and in Hashed mode, for every uint32 corner, the slot is in
\* [0, tableSize[level]) and the two flat indices the kernel reads lie in the
\* level's own segment of the flat buffer, hence inside the buffer.
C5_LookupInBounds ==
    /\ 0 <= probe_slot
    /\ probe_slot < hash_map_sizes_field[probe_level]
    /\ probe_index = 2 * (offsets[probe_level] + probe_slot)
    /\ 2 * offsets[probe_level] <= probe_index
    /\ probe_index + 1 < 2 * (offsets[probe_level] + hash_map_sizes_field[probe_level])
    /\ 0 <= probe_index
    /\ probe_index + 1 < total_hash_size

C5_Witness ==
    /\ hash_map_indicator[probe_level] = 0
    /\ probe_corner[1] = <<65535, 65535>>
    /\ probe_corner[2] = <<1, 0>>
    /\ probe_slot > 0
    /\ probe_level > 0

\* Coordinates 0 <= g < resolution, as plain integers.
InRange(corner, r) ==
    \A d \in Axes : corner[d][1] = 0 /\ corner[d][2] < r

RangeSamples(r) == {0, 1, r - 2, r - 1}

ScatterInit ==
    /\ Constructed
    /\ NoProbe
    /\ input_fields \in [Rows -> Positions]
    /\ parameter_fields = 1
    /\ output_fields = hash_encode_kernel(input_fields, parameter_fields, args_now,
                                          MaxBatch)
    /\ output_embedding = output_fields
    /\ param_grad = ZeroGrad(args_now)
    /\ hash_grad = ZeroGrad(args_now)
    /\ returned = MaxBatch
    /\ fwd_sizes = {MaxBatch}
    /\ bwd_rows = Rows
    /\ bwd_dout \in {Dout(k, MaxBatch) : k \in DoutChoices}
    /\ bwd_calls = 0
    /\ sc_level \in Levels
    /\ sc_pc = [i \in Rows |-> 7]

\* Thread (i, sc_level) makes the additions of its next corner.
ThreadStep(i) ==
    /\ sc_pc[i] >= 0
    /\ param_grad' = ScatterCorner(param_grad, input_fields, bwd_dout, args_now,
                                   i, sc_level, sc_pc[i])
    /\ sc_pc' = [sc_pc EXCEPT ![i] = @ - 1]
    /\ UNCHANGED <<descriptors, input_fields, parameter_fields, output_fields,
                   output_embedding, hash_grad, calls, probe, sc_level>>

ScatterNext == \E i \in Rows : ThreadStep(i)

ScatterSpec == ScatterInit /\ [][ScatterNext]_vars

====
